---- MODULE Spec2Model ----
(***************************************************************************)
(* Model of examples/python/t_reconstruction_system/                       *)
(* dense_slam_gui_read_dir.py: the mesh compaction and wire encoding of    *)
(* process_mesh, and the pipeline made of the reconstruction driver        *)
(* (ReconstructionWindow.update_main), the delivery queue (queue.Queue)    *)
(* and the network sender (process_data).                                  *)
(*                                                                         *)
(* Conventions.                                                            *)
(*  - numpy arrays are sequences; numpy's 0-based index i is position i+1. *)
(*  - a float32 is modelled by its IEEE-754 bit pattern read as a signed   *)
(*    32-bit integer, so that tobytes() is the little-endian layout of     *)
(*    that pattern and a round trip can be judged bit for bit.             *)
(*  - a byte is a number in 0..255, a byte string a sequence of bytes.     *)
(***************************************************************************)
EXTENDS Integers, Sequences, FiniteSets, TLC

VARIABLES
    mesh,            \* process_mesh: the mesh handed to it (triangles, vertices, colors)
    locals,          \* process_mesh: its locals once it has run, NotRun before
    recompacted,     \* process_mesh: its locals once it has run on its own compacted mesh
    shape,           \* process_mesh on large arrays: the row counts of the compacted arrays
    lengths,         \* process_mesh on large arrays: the lengths and the packed fields, NotRun before
    dataset_count,   \* ReconstructionWindow.dataset_count
    dir_not_found,   \* ReconstructionWindow.dir_not_found
    is_done,         \* ReconstructionWindow.is_done
    is_started,      \* ReconstructionWindow.is_started
    is_running,      \* ReconstructionWindow.is_running
    idx,             \* ReconstructionWindow.idx
    poses,           \* ReconstructionWindow.poses
    T_frame_to_model,\* update_main: the accumulated transform, as the number of results composed
    model,           \* ReconstructionWindow.model: the dataset it was created for, NoModel before
    drv_pc,          \* update_main: where the driver thread stands
    exists,          \* the file system: the set of dataset numbers whose directory exists
    posted,          \* gui.Application: callbacks posted to the main thread, not yet run
    window,          \* the window: "open", "closing" once _on_close has passed line 264, "closed" once it has returned True
    ui_pc,           \* the main thread: "idle" between callbacks, "on_start" before line 256, "on_close" before line 264
    done_read,       \* update_main: is_done as read at line 548, until it is written back
    attrs,           \* the attributes among is_done, is_started, is_running, idx, poses assigned so far
    data_queue,      \* the queue.Queue shared by the driver and the sender
    snd_pc,          \* process_data: where the sender thread stands
    data,            \* process_data: the item popped, NoData otherwise
    byte_array,      \* process_data: the frame being written
    index,           \* process_data: the count of frames written
    client_socket,   \* the socket: "closed", "connected" or "broken"
    written,         \* process_data: the bytes of byte_array the socket has taken in the sendall in hand
    stream,          \* the connection: the bytes client_socket has taken from sendall, in order; the peer receives a prefix of them
    enqueued,        \* history: the dataset numbers of the meshes put, in order
    dequeued,        \* history: the dataset numbers of the meshes popped, in order
    sent,            \* history: the frames written in full, in order (dataset number, length, connection)
    failed,          \* history: the items whose processing raised, in order (dataset number, bytes written)
    connects,        \* history: the number of connect() calls made
    not_found,       \* history: the dataset numbers whose directory was found missing, in order
    exc_call,        \* history: the call that raised in the try block of the frame in hand, NoCall otherwise
    processed,       \* history: the indices at which frames of the dataset in hand were read
    compactions,     \* history: the calls of process_mesh, in order (dataset number, thread)
    close_run        \* history: whether _on_close has run

meshVars == <<mesh, locals, recompacted, shape, lengths>>
driverVars == <<dataset_count, dir_not_found, is_done, is_started, is_running,
                idx, poses, T_frame_to_model, model, drv_pc, exists, posted,
                window, ui_pc, done_read, attrs>>
senderVars == <<snd_pc, data, byte_array, index, client_socket, written, stream>>
historyVars == <<enqueued, dequeued, sent, failed, connects, not_found,
                 exc_call, processed, compactions, close_run>>
vars == <<mesh, locals, recompacted, shape, lengths, dataset_count, dir_not_found, is_done, is_started,
          is_running, idx, poses, T_frame_to_model, model, drv_pc, exists,
          posted, window, ui_pc, done_read, attrs, data_queue, snd_pc, data, byte_array, index,
          client_socket, written, stream, enqueued, dequeued, sent, failed, connects,
          not_found, exc_call, processed, compactions, close_run>>

----------------------------------------------------------------------------
(* Bounds of the model.                                                    *)

\* The largest number of vertices of a mesh handed to process_mesh.
MaxNv == 3
\* The largest number of triangles of a mesh handed to process_mesh.
MaxNt == 2
\* The number of dataset directories that may ever exist.
MaxDatasets == 2
\* n_files (line 426): the number of frames of every dataset whose files
\* load.  A dataset without frames does not load: line 430 raises.
NumFiles == 2
\* How far the row counts of large arrays lie from the counts at which a
\* length field stops fitting in 32 bits.
MaxMargin == 1

----------------------------------------------------------------------------
(* Bytes and 32-bit integers.                                              *)

\* The width in bytes of an int32 ('<i', np.int32) and of a float32.
ItemSize == 4

Pow256 == <<1, 256, 65536, 16777216>>

MaxInt32 == 2147483647
MinInt32 == (-2147483647) - 1

\* The big-endian bytes of the two's complement of n ('>i' for '<i').
BigEndian(n) ==
    IF n >= 0
    THEN [k \in 1..4 |-> (n \div Pow256[5 - k]) % 256]
    ELSE [k \in 1..4 |-> 255 - (((-(n + 1)) \div Pow256[5 - k]) % 256)]

\* The little-endian bytes of the two's complement of n, MinInt32 <= n <= MaxInt32
\* (ndarray.tobytes() of one 4-byte item, and the body of struct.pack('<i', n)).
LittleEndian(n) ==
    IF n >= 0
    THEN [k \in 1..ItemSize |-> (n \div Pow256[k]) % 256]
    ELSE [k \in 1..ItemSize |-> 255 - (((-(n + 1)) \div Pow256[k]) % 256)]

\* struct.pack('<i', n) raises struct.error when n is no signed 32-bit integer.
StructError == "struct.error"
NoException == "no exception"
StructPackRaises(n) == n < MinInt32 \/ n > MaxInt32
\* struct.pack('<i', n) when it does not raise.
StructPack(n) == LittleEndian(n)

RECURSIVE Concat(_)
\* The concatenation of a sequence of sequences.
Concat(ss) == IF ss = <<>> THEN <<>> ELSE Head(ss) \o Concat(Tail(ss))

\* ndarray.tobytes() of an (n, 3) array of 4-byte items, in C (row-major) order.
ToBytes(rows) ==
    Concat([r \in 1..Len(rows) |->
              LittleEndian(rows[r][1]) \o LittleEndian(rows[r][2])
                \o LittleEndian(rows[r][3])])

\* ndarray.nbytes of an (n, 3) array of 4-byte items.
Nbytes(rows) == Len(rows) * 3 * ItemSize

----------------------------------------------------------------------------
(* process_mesh: compaction.                                               *)

\* The set of the indices that occur in the triangles.
Referenced(triangles) ==
    {triangles[t][c] : t \in 1..Len(triangles), c \in 1..3}

Minimum(S) == CHOOSE m \in S : \A x \in S : m <= x
Maximum(S) == CHOOSE m \in S : \A x \in S : m >= x

RECURSIVE Ascending(_)
\* The elements of a finite set of integers, in ascending order.
Ascending(S) ==
    IF S = {} THEN <<>> ELSE <<Minimum(S)>> \o Ascending(S \ {Minimum(S)})

RECURSIVE Descending(_)
\* The elements of a finite set of integers, in descending order.
Descending(S) ==
    IF S = {} THEN <<>> ELSE <<Maximum(S)>> \o Descending(S \ {Maximum(S)})

\* np.unique(triangles)[::-1]: the distinct elements, largest first.
NpUniqueDescending(triangles) == Descending(Referenced(triangles))

\* np.arange(triangles.max() + 1): every index up to the largest referenced.
NpArangeMax(triangles) ==
    IF Referenced(triangles) = {} THEN <<>>
    ELSE [j \in 1..(Maximum(Referenced(triangles)) + 1) |-> j - 1]

\* np.unique(triangles): the sorted distinct elements of the flattened array.
NpUnique(triangles) == Ascending(Referenced(triangles))

RECURSIVE Bisect(_, _, _, _)
\* np.searchsorted(a, v) (side='left'): binary search over positions lo..hi
\* (0-based, hi excluded) for the first position whose element is not below v.
Bisect(a, v, lo, hi) ==
    IF lo >= hi THEN lo
    ELSE LET mid == lo + ((hi - lo) \div 2)
         IN  IF a[mid + 1] < v THEN Bisect(a, v, mid + 1, hi)
                               ELSE Bisect(a, v, lo, mid)

RECURSIVE BisectRight(_, _, _, _)
\* np.searchsorted(a, v, side='right'): the first position whose element is above v.
BisectRight(a, v, lo, hi) ==
    IF lo >= hi THEN lo
    ELSE LET mid == lo + ((hi - lo) \div 2)
         IN  IF a[mid + 1] <= v THEN BisectRight(a, v, mid + 1, hi)
                                ELSE BisectRight(a, v, lo, mid)

NpSearchSortedRight(a, v) == BisectRight(a, v, 0, Len(a))

NpSearchSorted(a, v) == Bisect(a, v, 0, Len(a))

\* The array itself, where the gather was meant (referenced_vertices = vertices).
TakeAll(arr, indices) == arr

\* arr[indices]: numpy's gather by an index array.
Take(arr, indices) == [j \in 1..Len(indices) |-> arr[indices[j] + 1]]

\* np.searchsorted(referenced_vertex_indices, triangles), elementwise.
IndicesInReferenced(referenced_vertex_indices, triangles) ==
    [t \in 1..Len(triangles) |->
        [c \in 1..3 |-> NpSearchSorted(referenced_vertex_indices, triangles[t][c])]]

\* The columns stacked in the order 1, 2, 0.
ColumnStackRotated(indices_in_referenced) ==
    [t \in 1..Len(indices_in_referenced) |->
        <<indices_in_referenced[t][2],
          indices_in_referenced[t][3],
          indices_in_referenced[t][1]>>]

\* np.column_stack of the three columns, then astype(np.int32): an (n, 3)
\* array of 4-byte items whatever the item size of the input indices (the
\* values are ranks, far below 2^31, so the cast changes the width only).
ColumnStack(indices_in_referenced) ==
    [t \in 1..Len(indices_in_referenced) |->
        <<indices_in_referenced[t][1],
          indices_in_referenced[t][2],
          indices_in_referenced[t][3]>>]

----------------------------------------------------------------------------
(* process_mesh: the frame.                                                *)

\* The three byte lengths and the three length fields, without the field
\* that holds the total itself.
MessageLengthOfRest(len_vertices_byte, len_triangles_byte, len_colors_byte) ==
    12 + len_vertices_byte + len_triangles_byte + len_colors_byte

\* message_length = 16 + the three byte lengths.
MessageLength(len_vertices_byte, len_triangles_byte, len_colors_byte) ==
    16 + len_vertices_byte + len_triangles_byte + len_colors_byte

\* The concatenation of the length fields and the three buffers.
PackFrame(message_length, lv, vertices, lt, triangles, lc, colors) ==
    StructPack(message_length)
      \o StructPack(lv) \o vertices
      \o StructPack(lt) \o triangles
      \o StructPack(lc) \o colors

\* The locals of process_mesh(m) when it ends: byte_array is its result when
\* exception is NoException, and is not assigned when a struct.pack raised.
ProcessMeshLocals(m) ==
    LET referenced_vertex_indices == NpUnique(m.triangles)
        referenced_vertices == Take(m.vertices, referenced_vertex_indices)
        referenced_colors == Take(m.colors, referenced_vertex_indices)
        indices_in_referenced ==
            IndicesInReferenced(referenced_vertex_indices, m.triangles)
        referenced_triangles == ColumnStack(indices_in_referenced)
        len_vertices_byte == Nbytes(referenced_vertices)
        len_triangles_byte == Nbytes(referenced_triangles)
        len_colors_byte == Nbytes(referenced_colors)
        message_length ==
            MessageLength(len_vertices_byte, len_triangles_byte, len_colors_byte)
    IN  [referenced_vertex_indices |-> referenced_vertex_indices,
         referenced_vertices |-> referenced_vertices,
         referenced_colors |-> referenced_colors,
         referenced_triangles |-> referenced_triangles,
         len_vertices_byte |-> len_vertices_byte,
         len_triangles_byte |-> len_triangles_byte,
         len_colors_byte |-> len_colors_byte,
         message_length |-> message_length,
         exception |->
             IF \E n \in {message_length, len_vertices_byte,
                           len_triangles_byte, len_colors_byte} :
                    StructPackRaises(n)
             THEN StructError ELSE NoException,
         byte_array |->
             IF \E n \in {message_length, len_vertices_byte,
                           len_triangles_byte, len_colors_byte} :
                    StructPackRaises(n)
             THEN <<>>
             ELSE PackFrame(message_length,
                            len_vertices_byte, ToBytes(referenced_vertices),
                            len_triangles_byte, ToBytes(referenced_triangles),
                            len_colors_byte, ToBytes(referenced_colors))]

----------------------------------------------------------------------------
(* The meshes handed to process_mesh: what extract_triangle_mesh returns,  *)
(* float32 positions and colors of equal length and triangles whose        *)
(* indices are all within the vertex array.                                *)

\* The bit pattern of the float32 2^e, -64 <= e <= 64.
Float(e) == 1065353216 + (e * 8388608)
\* The bit pattern of the float32 -(2^e), read as an int32.
NegFloat(e) == (Float(e) - MaxInt32) - 1
\* The bit pattern of the float32 0.0.
Zero == Float(0) - Float(0)

\* The vertex and color arrays of nv vertices: pairwise distinct positions,
\* but for the last vertex, which has the coordinates of the first (distinct
\* indices, equal coordinates), and pairwise distinct colors.
VertexArrays(nv) ==
    { [vertices |-> [i \in 1..nv |->
                       IF i = nv THEN <<Float(1), NegFloat(0), Zero>>
                       ELSE <<Float(i), NegFloat(i - 1), Zero>>],
       colors |-> [i \in 1..nv |-> <<Float(-i), Float(-1), Float(0)>>]] }

\* Two meshes of five vertices, all red: the vertices (0,0,0), (1,0,0),
\* (0,1,0), (9,9,9), (0,0,1) with the triangles (0,1,2), (0,2,4), and the
\* same vertices with the single triangle (0,1,2).
FiveVertices ==
    << <<Zero, Zero, Zero>>, <<Float(0), Zero, Zero>>, <<Zero, Float(0), Zero>>,
       <<1091567616, 1091567616, 1091567616>>, <<Zero, Zero, Float(0)>> >>
FiveReds == [i \in 1..5 |-> <<Float(0), Zero, Zero>>]
ExampleMeshes ==
    { [triangles |-> << <<0, 1, 2>>, <<0, 2, 4>> >>,
       vertices |-> FiveVertices, colors |-> FiveReds],
      [triangles |-> << <<0, 1, 2>> >>,
       vertices |-> FiveVertices, colors |-> FiveReds] }

\* Triangle arrays of nt triangles over nv vertices.
TriangleArrays(nv, nt) == [1..nt -> [1..3 -> 0..(nv - 1)]]

\* Values that stand for "nothing" where a record is held otherwise.
NotRun == [exception |-> "not run"]
NoMesh == [triangles |-> "no mesh"]
NoModel == [ds |-> 0]
NoData == [ds |-> 0]
NoCall == "no call"
NoShape == [vertices |-> 0, triangles |-> 0, colors |-> 0,
            vertex_itemsize |-> 0, index_itemsize |-> 0, color_itemsize |-> 0]

\* The pipeline after ReconstructionWindow.__init__ and the start of the two
\* threads: no directory seen yet, nothing posted, an empty queue, a sender
\* that has not connected.  __init__ assigns dataset_count and dir_not_found
\* only: is_done, is_started, is_running, idx and poses do not exist yet
\* (attrs is empty, and their variables hold a value nothing reads).
PipelineInit ==
    /\ attrs = {}
    /\ dataset_count = 0
    /\ dir_not_found = FALSE
    /\ is_done = FALSE
    /\ is_started = FALSE
    /\ is_running = FALSE
    /\ idx = 0
    /\ poses = <<>>
    /\ T_frame_to_model = 0
    /\ model = NoModel
    /\ drv_pc = "poll"
    /\ exists = {}
    /\ posted = <<>>
    /\ window = "open"
    /\ ui_pc = "idle"
    /\ done_read = FALSE
    /\ data_queue = <<>>
    /\ snd_pc = "connect"
    /\ data = NoData
    /\ byte_array = <<>>
    /\ index = 0
    /\ client_socket = "closed"
    /\ written = 0
    /\ stream = <<>>
    /\ enqueued = <<>>
    /\ dequeued = <<>>
    /\ sent = <<>>
    /\ failed = <<>>
    /\ connects = 0
    /\ not_found = <<>>
    /\ exc_call = NoCall
    /\ processed = {}
    /\ compactions = <<>>
    /\ close_run = FALSE

----------------------------------------------------------------------------
(* process_mesh on its own: every mesh of the bounds is handed to it once. *)

InitMesh ==
    /\ \/ \E nv \in 0..MaxNv : \E nt \in 0..MaxNt :
            \E t \in TriangleArrays(nv, nt) :
              \E v \in VertexArrays(nv) :
                mesh = [triangles |-> t, vertices |-> v.vertices, colors |-> v.colors]
       \/ mesh \in ExampleMeshes
    /\ locals = NotRun
    /\ recompacted = NotRun
    /\ shape = NoShape
    /\ lengths = NotRun
    /\ PipelineInit

\* One call of process_mesh(mesh, file_name).
CallProcessMesh ==
    /\ locals = NotRun
    /\ locals' = ProcessMeshLocals(mesh)
    /\ UNCHANGED <<mesh, recompacted, shape, lengths, data_queue>>
    /\ UNCHANGED driverVars
    /\ UNCHANGED senderVars
    /\ UNCHANGED historyVars

\* The compacted mesh of a call, in the shape of a mesh handed to process_mesh.
CompactMesh(l) ==
    [triangles |-> l.referenced_triangles,
     vertices |-> l.referenced_vertices,
     colors |-> l.referenced_colors]

\* A second call of process_mesh, on the compacted mesh of the first.
Recompact ==
    /\ locals.exception # NotRun.exception
    /\ recompacted = NotRun
    /\ recompacted' = ProcessMeshLocals(CompactMesh(locals))
    /\ UNCHANGED <<mesh, locals, shape, lengths, data_queue>>
    /\ UNCHANGED driverVars
    /\ UNCHANGED senderVars
    /\ UNCHANGED historyVars

NextMesh == CallProcessMesh \/ Recompact

SpecMesh == InitMesh /\ [][NextMesh]_vars

----------------------------------------------------------------------------
(* process_mesh on large arrays: lines 606-621 by the row counts of the    *)
(* three compacted arrays.  nbytes and message_length are Python integers, *)
(* which have no width; they are kept as CPython keeps them, as digits of  *)
(* 30 bits, least significant first (two digits here).                     *)

\* 2^30, the base of the digits of a Python integer.
PyLongBase == 1073741824

\* The Python integer of a number 0 <= n <= MaxInt32.
PyLong(n) == <<n % PyLongBase, n \div PyLongBase>>

\* a + b on Python integers.
PyLongAdd(a, b) ==
    LET low == a[1] + b[1]
    IN  <<low % PyLongBase, a[2] + b[2] + (low \div PyLongBase)>>

RECURSIVE PyLongMul(_, _)
\* a * k on Python integers, k a small natural number.
PyLongMul(a, k) == IF k = 0 THEN PyLong(0) ELSE PyLongAdd(a, PyLongMul(a, k - 1))

\* a > b on Python integers.
PyLongGreater(a, b) == a[2] > b[2] \/ (a[2] = b[2] /\ a[1] > b[1])

\* The low 32 bits of a Python integer a >= 0, read as a signed number.
PyLongAsInt32(a) ==
    IF a[2] % 4 < 2
    THEN ((a[2] % 4) * PyLongBase) + a[1]
    ELSE (((a[2] % 4) - 4) * PyLongBase) + a[1]

\* ndarray.nbytes of an (n, 3) array of items of itemsize bytes, as a
\* Python integer.
NbytesOfRows(n, itemsize) == PyLongMul(PyLongMul(PyLong(n), 3), itemsize)

\* The width in bytes of np.intp, the type of the indices np.searchsorted
\* returns.
IntpItemSize == 8

\* The item size of np.searchsorted(a, v), whatever that of a and v.
SearchSortedItemSize(itemsize) == IntpItemSize

\* The item size left as it is, where the cast is missing.
AsTypeMissing(itemsize) == itemsize

\* The item size after astype(np.int32).
AsTypeInt32(itemsize) == ItemSize

\* message_length = 16 + the three byte lengths, on Python integers.
MessageLengthLong(len_vertices_byte, len_triangles_byte, len_colors_byte) ==
    PyLongAdd(PyLongAdd(PyLongAdd(PyLong(16), len_vertices_byte),
                        len_triangles_byte), len_colors_byte)

\* A struct.pack that never raises.
StructPackLongNeverRaises(a) == FALSE

\* struct.pack('<i', a) raises struct.error when a >= 0 is above 2^31 - 1.
StructPackLongRaises(a) == PyLongGreater(a, PyLong(MaxInt32))

\* struct.pack('<i', a) when it does not raise: the four low bytes of a.
StructPackLong(a) == LittleEndian(PyLongAsInt32(a))

\* Lines 583-621 for arrays of s.vertices, s.triangles and s.colors rows:
\* the gathers keep the item size of the vertices and of the colors, the
\* triangles are the indices of searchsorted cast to int32; then the
\* lengths, the exception if a struct.pack raised, and the four length
\* fields as they are written into the frame.
ProcessMeshLengths(s) ==
    LET len_vertices_byte == NbytesOfRows(s.vertices, s.vertex_itemsize)
        len_triangles_byte ==
            NbytesOfRows(s.triangles,
                         AsTypeInt32(SearchSortedItemSize(s.index_itemsize)))
        len_colors_byte == NbytesOfRows(s.colors, s.color_itemsize)
        message_length ==
            MessageLengthLong(len_vertices_byte, len_triangles_byte, len_colors_byte)
        raised == \E a \in {message_length, len_vertices_byte,
                             len_triangles_byte, len_colors_byte} :
                      StructPackLongRaises(a)
    IN  [len_vertices_byte |-> len_vertices_byte,
         len_triangles_byte |-> len_triangles_byte,
         len_colors_byte |-> len_colors_byte,
         message_length |-> message_length,
         exception |-> IF raised THEN StructError ELSE NoException,
         fields |-> IF raised THEN <<>>
                    ELSE <<StructPackLong(message_length),
                           StructPackLong(len_vertices_byte),
                           StructPackLong(len_triangles_byte),
                           StructPackLong(len_colors_byte)>>]

\* The row counts next to which a length field stops fitting: of one array
\* alone, of the vertices and colors together, and of three equal arrays.
Thresholds ==
    {MaxInt32 \div 12, MaxInt32 \div 24, (MaxInt32 - 16) \div 36}

\* The row counts tried: small ones and those around the thresholds.
RowCounts ==
    (0..MaxMargin) \cup
    {n + d : n \in Thresholds, d \in (-MaxMargin)..MaxMargin}

\* The item sizes of the arrays of a mesh: float32 or float64 positions
\* and colors, int32 or int64 indices.
ItemSizes == {ItemSize, 2 * ItemSize}

\* The shapes of the compacted arrays of a mesh: as many colors as vertices,
\* no vertex without a triangle, at most three vertices to a triangle; and
\* the item sizes of the arrays of the mesh.
Shapes ==
    {[vertices |-> p[1], triangles |-> p[2], colors |-> p[1],
      vertex_itemsize |-> w[1], index_itemsize |-> w[2], color_itemsize |-> w[3]] :
        p \in {q \in RowCounts \X RowCounts :
                  /\ q[1] <= 3 * q[2]
                  /\ (q[1] = 0) <=> (q[2] = 0)},
        w \in ItemSizes \X ItemSizes \X ItemSizes}

InitLengths ==
    /\ shape \in Shapes
    /\ lengths = NotRun
    /\ mesh = NoMesh
    /\ locals = NotRun
    /\ recompacted = NotRun
    /\ PipelineInit

\* The lengths and length fields of one call of process_mesh.
CallProcessMeshLengths ==
    /\ lengths = NotRun
    /\ lengths' = ProcessMeshLengths(shape)
    /\ UNCHANGED <<mesh, locals, recompacted, shape, data_queue>>
    /\ UNCHANGED driverVars
    /\ UNCHANGED senderVars
    /\ UNCHANGED historyVars

NextLengths == CallProcessMeshLengths

SpecLengths == InitLengths /\ [][NextLengths]_vars

----------------------------------------------------------------------------
(* The reader of a frame, by the layout of the wire format: an int32 at an *)
(* offset, and an (n, 3) array of 4-byte items in a run of bytes.          *)

\* Whether bytes holds the n bytes at 0-based offset off.
Holds(bytes, off, n) ==
    off >= 0 /\ n >= 0 /\ off <= Len(bytes) /\ n <= Len(bytes) - off

\* The signed little-endian int32 at 0-based offset off of bytes.
ReadInt32(bytes, off) ==
    LET b == [k \in 1..4 |-> bytes[off + k]]
    IN  IF b[4] < 128
        THEN b[1] + (256 * b[2]) + (65536 * b[3]) + (16777216 * b[4])
        ELSE (-((255 - b[1]) + (256 * (255 - b[2])) + (65536 * (255 - b[3]))
                 + (16777216 * (255 - b[4])))) - 1

\* The rows of three 4-byte items held by the n bytes at offset off.
ReadRows(bytes, off, n) ==
    [r \in 1..(n \div 12) |->
        <<ReadInt32(bytes, off + (12 * (r - 1))),
          ReadInt32(bytes, off + (12 * (r - 1)) + 4),
          ReadInt32(bytes, off + (12 * (r - 1)) + 8)>>]

Malformed == [ok |-> FALSE]

\* The fields of a frame read in the order of the layout: total, Lv, the Lv
\* vertex bytes, Lt, the Lt triangle bytes, Lc, the Lc color bytes; end is
\* the offset at which the reading stops.  Malformed when a read would pass
\* the end of the frame or a buffer is no whole number of rows.
Decode(frame) ==
    IF ~Holds(frame, 0, 8) THEN Malformed
    ELSE
    LET total == ReadInt32(frame, 0)
        Lv == ReadInt32(frame, 4)
    IN  IF Lv % 12 # 0 \/ ~Holds(frame, 8, Lv) \/ ~Holds(frame, 8 + Lv, 4)
        THEN Malformed
    ELSE
    LET Lt == ReadInt32(frame, 8 + Lv)
    IN  IF Lt % 12 # 0 \/ ~Holds(frame, 12 + Lv, Lt)
             \/ ~Holds(frame, 12 + Lv + Lt, 4)
        THEN Malformed
    ELSE
    LET Lc == ReadInt32(frame, 12 + Lv + Lt)
    IN  IF Lc % 12 # 0 \/ ~Holds(frame, 16 + Lv + Lt, Lc) THEN Malformed
    ELSE [ok |-> TRUE, total |-> total, Lv |-> Lv, Lt |-> Lt, Lc |-> Lc,
          vertices |-> ReadRows(frame, 8, Lv),
          triangles |-> ReadRows(frame, 12 + Lv, Lt),
          colors |-> ReadRows(frame, 16 + Lv + Lt, Lc),
          end |-> 16 + Lv + Lt + Lc]

----------------------------------------------------------------------------
(* Claims about process_mesh, checked under SpecMesh.                      *)

HasRun == locals.exception # NotRun.exception

\* The number of compacted vertices.
K == Len(locals.referenced_vertices)

\* C1: compaction preserves connectivity: the compacted mesh has as many
\* triangles as the mesh, in the same order, and the three positions that a
\* remapped triangle addresses in the compacted vertices are the positions
\* that the original triangle (a, b, c) addresses in the vertices of the mesh.
C1_ConnectivityPreserved ==
    HasRun =>
        /\ Len(locals.referenced_triangles) = Len(mesh.triangles)
        /\ \A t \in 1..Len(mesh.triangles) : \A c \in 1..3 :
              LET j == locals.referenced_triangles[t][c]
              IN  /\ j \in 0..(K - 1)
                  /\ locals.referenced_vertices[j + 1]
                        = mesh.vertices[mesh.triangles[t][c] + 1]

\* C1 witness: process_mesh has run on a mesh whose referenced vertices have
\* pairwise distinct positions, with an unreferenced vertex below a
\* referenced one, so that an index changes.
C1_Witness ==
    /\ HasRun
    /\ Len(mesh.triangles) = 2
    /\ K >= 2
    /\ \A i, j \in 1..K :
          i # j => locals.referenced_vertices[i] # locals.referenced_vertices[j]
    /\ \E t \in 1..2 : \E c \in 1..3 :
          locals.referenced_triangles[t][c] # mesh.triangles[t][c]

\* The pairs (original index, remapped index) over all triangle corners.
Remap ==
    { <<mesh.triangles[t][c], locals.referenced_triangles[t][c]>> :
        t \in 1..Len(mesh.triangles), c \in 1..3 }

\* C2: compaction keeps exactly the referenced vertices: the number k of
\* compacted vertices (and colors) is the number of distinct indices in the
\* triangles, every remapped index is in [0, k), every position of [0, k) is
\* used, and the remapping is a bijection from the referenced indices to [0, k).
C2_ExactlyReferenced ==
    HasRun =>
        /\ K = Cardinality(Referenced(mesh.triangles))
        /\ Len(locals.referenced_colors) = K
        /\ {p[2] : p \in Remap} = 0..(K - 1)
        /\ \A p, q \in Remap : (p[1] = q[1]) <=> (p[2] = q[2])

\* C2 witness: five vertices with the single triangle (0, 1, 2) have given
\* three vertices and three colors.
C2_Witness ==
    /\ HasRun
    /\ Len(mesh.vertices) = 5
    /\ mesh.triangles = << <<0, 1, 2>> >>
    /\ K = 3
    /\ Len(locals.referenced_colors) = 3

\* C3: the frame is [total][Lv][Lv bytes][Lt][Lt bytes][Lc][Lc bytes], read
\* in that order it ends where the frame ends, and total is 16 + Lv + Lt + Lc,
\* the byte length of the whole frame.
C3_FrameLayout ==
    HasRun =>
        LET d == Decode(locals.byte_array)
        IN  /\ locals.exception = NoException
            /\ d.ok
            /\ d.end = Len(locals.byte_array)
            /\ d.total = 16 + d.Lv + d.Lt + d.Lc
            /\ d.total = Len(locals.byte_array)

\* C3 witness: a frame with three non-empty buffers.
C3_Witness ==
    /\ HasRun
    /\ Len(mesh.triangles) = 2
    /\ K = 3
    /\ Len(locals.byte_array) = 16 + 36 + 24 + 36

\* C9: reading the frame by the layout gives back the compacted positions,
\* the remapped triangles and the compacted colors, in order and bit for bit.
C9_RoundTrip ==
    HasRun =>
        LET d == Decode(locals.byte_array)
        IN  /\ locals.exception = NoException
            /\ d.ok
            /\ d.vertices = locals.referenced_vertices
            /\ d.triangles = locals.referenced_triangles
            /\ d.colors = locals.referenced_colors

\* C9 witness: a frame that carries distinct positions, one of them with a
\* negative coordinate, distinct colors and a triangle.
C9_Witness ==
    /\ HasRun
    /\ K >= 2
    /\ locals.referenced_vertices[1] # locals.referenced_vertices[2]
    /\ locals.referenced_colors[1] # locals.referenced_colors[2]
    /\ locals.referenced_vertices[1][2] < 0
    /\ Len(locals.referenced_triangles) >= 1

\* C10: the compacted vertices are the referenced vertices in ascending
\* order of original index, and the colors are gathered by the same
\* selection: refIndex is strictly increasing, holds exactly the referenced
\* indices, and vertices'[j] = vertices[refIndex[j]], colors'[j] = colors[refIndex[j]].
C10_AscendingGather ==
    HasRun =>
        LET refIndex == locals.referenced_vertex_indices
        IN  /\ Len(refIndex) = K
            /\ Len(locals.referenced_colors) = K
            /\ {refIndex[j] : j \in 1..K} = Referenced(mesh.triangles)
            /\ \A i, j \in 1..K : i < j => refIndex[i] < refIndex[j]
            /\ \A j \in 1..K :
                  /\ locals.referenced_vertices[j] = mesh.vertices[refIndex[j] + 1]
                  /\ locals.referenced_colors[j] = mesh.colors[refIndex[j] + 1]

\* C10 witness: vertex 0 is unreferenced and vertices 1 and 2 are referenced
\* in descending order by the first triangle.
C10_Witness ==
    /\ HasRun
    /\ Len(mesh.triangles) >= 1
    /\ mesh.triangles[1] = <<2, 1, 2>>
    /\ locals.referenced_vertex_indices = <<1, 2>>
    /\ mesh.vertices[2] # mesh.vertices[3]
    /\ mesh.colors[2] # mesh.colors[3]

\* C11: compaction is idempotent: process_mesh run on its own compacted
\* mesh returns the same vertices, the same colors and the same triangle
\* indices, and keeps every vertex.
C11_Idempotent ==
    recompacted.exception # NotRun.exception =>
        /\ recompacted.referenced_vertices = locals.referenced_vertices
        /\ recompacted.referenced_colors = locals.referenced_colors
        /\ recompacted.referenced_triangles = locals.referenced_triangles
        /\ Len(recompacted.referenced_vertices) = K

\* C11 witness: the first call dropped a vertex and changed an index, and
\* the second call has run on its result of two triangles.
C11_Witness ==
    /\ recompacted.exception # NotRun.exception
    /\ K < Len(mesh.vertices)
    /\ K >= 2
    /\ Len(mesh.triangles) = 2
    /\ locals.referenced_triangles # mesh.triangles
    /\ locals.referenced_vertices[1] # locals.referenced_vertices[2]

\* C12: a mesh without triangles compacts to the empty mesh, whatever its
\* vertices, and process_mesh returns a frame for it.
C12_NoTrianglesGivesEmpty ==
    (HasRun /\ mesh.triangles = <<>>) =>
        /\ locals.referenced_vertices = <<>>
        /\ locals.referenced_colors = <<>>
        /\ locals.referenced_triangles = <<>>
        /\ locals.exception = NoException

\* C12 witness: process_mesh has run on three vertices and no triangle.
C12_Witness ==
    /\ HasRun
    /\ mesh.triangles = <<>>
    /\ Len(mesh.vertices) = 3
    /\ Len(mesh.colors) = 3

\* C13: the frame of a mesh of no vertex and no triangle is the 16 bytes of
\* total_message_length = 16 and Lv = Lt = Lc = 0.
C13_EmptyFrame ==
    (HasRun /\ mesh.triangles = <<>> /\ mesh.vertices = <<>>) =>
        /\ locals.exception = NoException
        /\ locals.byte_array = <<16, 0, 0, 0, 0, 0, 0, 0, 0, 0, 0, 0, 0, 0, 0, 0>>
        /\ Decode(locals.byte_array).ok
        /\ Decode(locals.byte_array).total = 16
        /\ Decode(locals.byte_array).Lv = 0
        /\ Decode(locals.byte_array).Lt = 0
        /\ Decode(locals.byte_array).Lc = 0

\* C13 witness: process_mesh has run on the mesh of no vertex and no triangle.
C13_Witness ==
    /\ HasRun
    /\ mesh.triangles = <<>>
    /\ mesh.vertices = <<>>
    /\ mesh.colors = <<>>
    /\ Len(locals.byte_array) = 16

\* Whether the Python integer a fits the signed 32-bit field.
Fits(a) == ~PyLongGreater(a, PyLong(MaxInt32))

LengthsRun == lengths.exception # NotRun.exception

\* C14 as stated: the encoder fails only if one of the three byte lengths
\* Lv, Lt, Lc is above the signed 32-bit range, and no field is written
\* wrapped.
C14_Original ==
    LengthsRun =>
        /\ (Fits(lengths.len_vertices_byte) /\ Fits(lengths.len_triangles_byte)
               /\ Fits(lengths.len_colors_byte))
             => lengths.exception = NoException
        /\ lengths.exception = NoException =>
              /\ PyLong(ReadInt32(lengths.fields[2], 0)) = lengths.len_vertices_byte
              /\ PyLong(ReadInt32(lengths.fields[3], 0)) = lengths.len_triangles_byte
              /\ PyLong(ReadInt32(lengths.fields[4], 0)) = lengths.len_colors_byte

\* C14 as amended: the encoder fails only if one of the four length fields,
\* Lv, Lt, Lc or total_message_length = 16 + Lv + Lt + Lc, is above the
\* signed 32-bit range: when all four fit a frame is returned, and every
\* field written reads back as the length it stands for.
C14_FailsOnlyWhenAFieldOverflows ==
    LengthsRun =>
        /\ (lengths.exception = StructError) <=>
              ~(/\ Fits(lengths.len_vertices_byte)
                /\ Fits(lengths.len_triangles_byte)
                /\ Fits(lengths.len_colors_byte)
                /\ Fits(lengths.message_length))
        /\ lengths.exception \in {StructError, NoException}
        /\ lengths.exception = NoException =>
              /\ ReadInt32(lengths.fields[1], 0) >= 0
              /\ PyLong(ReadInt32(lengths.fields[1], 0)) = lengths.message_length
              /\ ReadInt32(lengths.fields[2], 0) >= 0
              /\ PyLong(ReadInt32(lengths.fields[2], 0)) = lengths.len_vertices_byte
              /\ ReadInt32(lengths.fields[3], 0) >= 0
              /\ PyLong(ReadInt32(lengths.fields[3], 0)) = lengths.len_triangles_byte
              /\ ReadInt32(lengths.fields[4], 0) >= 0
              /\ PyLong(ReadInt32(lengths.fields[4], 0)) = lengths.len_colors_byte

\* C14 witness: the largest frame that fits was returned: its total is
\* within 36 bytes of 2^31 - 1 and each buffer is a third of it.
C14_Witness ==
    /\ LengthsRun
    /\ lengths.exception = NoException
    /\ shape.vertices = shape.triangles
    /\ shape.vertex_itemsize = ItemSize /\ shape.color_itemsize = ItemSize
    /\ ReadInt32(lengths.fields[1], 0) > MaxInt32 - 36
    /\ ReadInt32(lengths.fields[2], 0) = ReadInt32(lengths.fields[3], 0)

\* C20: the length fields are the byte sizes of the arrays: Lt is 12 * Nt
\* whatever the item size of the indices of the mesh, Lv and Lc are the row
\* count times 3 times the item size of their array, 12 * Nv' for 4-byte
\* floats; and the fields written into a frame carry these numbers.
C20_LengthsAreByteSizes ==
    LengthsRun =>
        /\ lengths.len_triangles_byte = PyLongMul(PyLong(shape.triangles), 12)
        /\ lengths.len_vertices_byte
              = PyLongMul(PyLong(shape.vertices), 3 * shape.vertex_itemsize)
        /\ lengths.len_colors_byte
              = PyLongMul(PyLong(shape.colors), 3 * shape.color_itemsize)
        /\ shape.vertex_itemsize = 4
              => lengths.len_vertices_byte = PyLongMul(PyLong(shape.vertices), 12)
        /\ shape.color_itemsize = 4
              => lengths.len_colors_byte = PyLongMul(PyLong(shape.vertices), 12)
        /\ lengths.exception = NoException =>
              /\ PyLong(ReadInt32(lengths.fields[3], 0))
                    = PyLongMul(PyLong(shape.triangles), 12)
              /\ PyLong(ReadInt32(lengths.fields[2], 0))
                    = PyLongMul(PyLong(shape.vertices), 3 * shape.vertex_itemsize)
              /\ PyLong(ReadInt32(lengths.fields[4], 0))
                    = PyLongMul(PyLong(shape.colors), 3 * shape.color_itemsize)

\* C20 witness: a frame was returned for a mesh of 8-byte indices and
\* 4-byte floats, with Lt = 12 * Nt and Lv = Lc = 12 * Nv' above zero.
C20_Witness ==
    /\ LengthsRun
    /\ lengths.exception = NoException
    /\ shape.index_itemsize = 8
    /\ shape.vertex_itemsize = 4 /\ shape.color_itemsize = 4
    /\ shape.triangles >= 1 /\ shape.vertices >= 1
    /\ ReadInt32(lengths.fields[3], 0) = 12 * shape.triangles
    /\ ReadInt32(lengths.fields[2], 0) = 12 * shape.vertices
    /\ ReadInt32(lengths.fields[4], 0) = 12 * shape.vertices

----------------------------------------------------------------------------
(* The delivery queue: queue.Queue() of the standard library.              *)

\* queue.Queue(): maxsize is 0, which makes the queue unbounded.
QueueMaxsize == 0

\* A queue of one slot: queue.Queue(maxsize=1).
QueueFullOneSlot(q) == Len(q) >= 1

\* Queue.put blocks while the queue is full; an unbounded queue never is.
QueueFull(q) == QueueMaxsize > 0 /\ Len(q) >= QueueMaxsize

\* A put that keeps the newest item only.
QueuePutLatest(q, item) == <<item>>

\* Queue.put(item): the item goes to the tail.
QueuePut(q, item) == Append(q, item)

\* A pop from the tail: queue.LifoQueue.
QueueGetLifo(q) == [item |-> q[Len(q)], queue |-> SubSeq(q, 1, Len(q) - 1)]

\* Queue.get(), which blocks while the queue is empty: the head is taken.
QueueGet(q) == [item |-> Head(q), queue |-> Tail(q)]

----------------------------------------------------------------------------
(* The reconstruction driver: ReconstructionWindow.update_main, the thread *)
(* 'UpdateMain'.  drv_pc is "poll" at the top of the outer loop, "sleep"   *)
(* in the sleep of line 398, "start" before line 409, "load" before line   *)
(* 418, "loop" at the top of the frame loop, "frame" once its tests have   *)
(* passed, "pose" before line 476, "next" before line 547, "done" before   *)
(* line 548, "write" before its assignment, "extract" once the frame loop  *)
(* has ended, "put" before line 562, "exit" after the outer loop and       *)
(* "crashed" after an uncaught exception.                                  *)

\* The number of the dataset of config.path_dataset, 'scene_<dataset_count+1>'.
PathDataset == dataset_count + 1

\* model.voxel_grid.extract_triangle_mesh: the mesh of a model, by the
\* dataset it was created for.  A model with no frame integrated gives an
\* empty mesh; any other one triangle over two vertices, one of which
\* the triangle does not use.
ExtractTriangleMesh(m) ==
    LET n == Cardinality(m.frames)
        nv == IF n = 0 THEN 0 ELSE 2
    IN  [triangles |-> IF n = 0 THEN <<>> ELSE << <<1, 1, 1>> >>,
         vertices |-> [i \in 1..nv |-> <<Float(i), NegFloat(m.ds), Zero>>],
         colors |-> [i \in 1..nv |-> <<Float(-i), Float(-(m.ds)), Float(0)>>]]

\* Lines 396-398: the directory is missing; the driver prints and sleeps 5 s.
DriverDirMissing ==
    /\ drv_pc = "poll"
    /\ PathDataset \notin exists
    /\ drv_pc' = "sleep"
    /\ not_found' = Append(not_found, PathDataset)
    /\ UNCHANGED <<dataset_count, dir_not_found, is_done, is_started, is_running,
                   idx, poses, T_frame_to_model, model, exists, posted, window,
                   attrs, data_queue>>
    /\ UNCHANGED <<enqueued, dequeued, sent, failed, connects, exc_call, processed,
                   compactions, close_run>>
    /\ UNCHANGED meshVars
    /\ UNCHANGED <<done_read, ui_pc>>
    /\ UNCHANGED senderVars

\* Lines 399-404: after the sleep the loop ends if dir_not_found is set, and
\* sets it and polls again otherwise, whether the directory exists by now
\* or not.
DriverWake ==
    /\ drv_pc = "sleep"
    /\ IF dir_not_found
       THEN drv_pc' = "exit" /\ UNCHANGED dir_not_found
       ELSE dir_not_found' = TRUE /\ drv_pc' = "poll"
    /\ UNCHANGED <<dataset_count, is_done, is_started, is_running, idx, poses,
                   T_frame_to_model, model, exists, posted, window, attrs,
                   data_queue>>
    /\ UNCHANGED meshVars
    /\ UNCHANGED <<done_read, ui_pc>>
    /\ UNCHANGED senderVars
    /\ UNCHANGED historyVars

\* The attributes update_main assigns at lines 407-414.
DriverAttrs == {"is_done", "is_started", "is_running", "idx", "poses"}

\* Lines 396, 406-407: the directory exists; is_done is cleared.
DriverNewDataset ==
    /\ drv_pc = "poll"
    /\ PathDataset \in exists
    /\ is_done' = FALSE
    /\ attrs' = attrs \cup {"is_done"}
    /\ drv_pc' = "start"
    /\ UNCHANGED <<dataset_count, dir_not_found, is_started, is_running, idx,
                   poses, T_frame_to_model, model, exists, posted, window,
                   data_queue>>
    /\ UNCHANGED meshVars
    /\ UNCHANGED <<done_read, ui_pc>>
    /\ UNCHANGED senderVars
    /\ UNCHANGED historyVars

\* Lines 409-416: the other flags are reset and _on_start is posted to the
\* main thread.
DriverStartDataset ==
    /\ drv_pc = "start"
    /\ is_started' = FALSE
    /\ is_running' = FALSE
    /\ idx' = 0
    /\ poses' = <<>>
    /\ attrs' = attrs \cup DriverAttrs
    /\ posted' = Append(posted, [callback |-> "_on_start", ds |-> PathDataset])
    /\ drv_pc' = "load"
    /\ processed' = {}
    /\ UNCHANGED <<dataset_count, dir_not_found, is_done, T_frame_to_model, model,
                   exists, window, data_queue>>
    /\ UNCHANGED <<done_read, ui_pc>>
    /\ UNCHANGED meshVars
    /\ UNCHANGED senderVars
    /\ UNCHANGED <<enqueued, dequeued, sent, failed, connects, not_found,
                   exc_call, compactions, close_run>>

\* Lines 418-449: is_running is set and the files of the dataset are
\* loaded, n_files of them.  When a load or a read raises (a missing or
\* unreadable file, or no file at all at line 430) the thread ends.  The
\* callbacks posted at lines 445 and 538 (init_render, update_render) draw,
\* and touch nothing of this state.
DriverLoad(loads) ==
    /\ drv_pc = "load"
    /\ is_running' = TRUE
    /\ IF loads
       THEN drv_pc' = "loop" /\ idx' = 0
       ELSE drv_pc' = "crashed" /\ UNCHANGED idx
    /\ UNCHANGED <<dataset_count, dir_not_found, is_done, is_started, poses,
                   T_frame_to_model, model, exists, posted, window, attrs,
                   data_queue>>
    /\ UNCHANGED <<done_read, ui_pc>>
    /\ UNCHANGED meshVars
    /\ UNCHANGED senderVars
    /\ UNCHANGED historyVars

\* A test that waits for the start only and takes no notice of the pause.
WaitingForStartOnly(started, running) == ~started

\* Line 454: the driver waits while it is not started or not running.
Waiting(started, running) == ~started \/ ~running

\* A test that lets the loop go on to the frame after the last one.
LoopDoneOneLate(done, i) == done \/ (i > NumFiles)

\* Line 548: the value assigned to is_done, from is_done as read and the
\* index as incremented at line 547.
LoopDone(done, i) == done \/ (i >= NumFiles)

\* Lines 453-456: not started, or paused: sleep and test again.
DriverIdle ==
    /\ drv_pc = "loop"
    /\ ~is_done
    /\ Waiting(is_started, is_running)
    /\ UNCHANGED vars

\* Lines 453-458: not done, started and running: the driver goes on to read
\* the frame at idx.
DriverFrameTest ==
    /\ drv_pc = "loop"
    /\ ~is_done
    /\ ~Waiting(is_started, is_running)
    /\ drv_pc' = "frame"
    /\ UNCHANGED <<dataset_count, dir_not_found, is_done, is_started, is_running,
                   idx, poses, T_frame_to_model, model, exists, posted, window,
                   attrs, data_queue>>
    /\ UNCHANGED meshVars
    /\ UNCHANGED <<done_read, ui_pc>>
    /\ UNCHANGED senderVars
    /\ processed' = processed \cup {idx}
    /\ UNCHANGED <<enqueued, dequeued, sent, failed, connects, not_found,
                   exc_call, compactions, close_run>>

\* The calls of the try block after the pose is appended that may raise.
CallsAfterPose == {"update_frame_pose", "integrate", "synthesize_model_frame"}

\* A try block that covers the call of track_frame_to_model only: when it
\* raises, the pose is appended all the same and the driver goes on to
\* integrate the frame.
TryTrackingOnly(tracking_fails, T, p, i) ==
    LET composed == IF i > 0 /\ ~tracking_fails THEN T + 1 ELSE T
    IN  [T_frame_to_model |-> composed,
         poses |-> Append(p, composed),
         drv_pc |-> "pose"]

\* Lines 465-475 of the try block, for frame i, from the transform T and the
\* poses p.  When track_frame_to_model raises, the rest of the block is
\* skipped and the except branch prints; otherwise the result is composed
\* into the transform (for i > 0) and the pose is appended.
TryTracking(tracking_fails, T, p, i) ==
    IF tracking_fails
    THEN [T_frame_to_model |-> T, poses |-> p, drv_pc |-> "next"]
    ELSE LET composed == IF i > 0 THEN T + 1 ELSE T
         IN  [T_frame_to_model |-> composed,
              poses |-> Append(p, composed),
              drv_pc |-> "pose"]

\* Lines 458-475: the frame at idx, once the tests of lines 453-454 have
\* passed, whatever the flags have become since: the images are read, the
\* frame is tracked and its pose appended.  track_frame_to_model is
\* called for idx > 0 only, so it can raise there only.
DriverTrack(tracking_fails) ==
    /\ drv_pc = "frame"
    /\ tracking_fails => idx > 0
    /\ LET after == TryTracking(tracking_fails, T_frame_to_model, poses, idx)
       IN  /\ T_frame_to_model' = after.T_frame_to_model
           /\ poses' = after.poses
           /\ drv_pc' = after.drv_pc
    /\ exc_call' = IF tracking_fails THEN "track_frame_to_model" ELSE NoCall
    /\ UNCHANGED <<enqueued, dequeued, sent, failed, connects, not_found,
                   processed, compactions, close_run>>
    /\ UNCHANGED <<dataset_count, dir_not_found, is_done, is_started, is_running,
                   idx, model, exists, posted, window, attrs, data_queue>>
    /\ UNCHANGED meshVars
    /\ UNCHANGED <<done_read, ui_pc>>
    /\ UNCHANGED senderVars

\* Lines 476-545: the rest of the try block.  When update_frame_pose or
\* integrate raises, the frame is not integrated; when a later call raises
\* it is.  The except branch prints in either case.
DriverIntegrate(call) ==
    /\ drv_pc = "pose"
    /\ call \in CallsAfterPose \cup {NoCall}
    /\ model' = IF call \in {"update_frame_pose", "integrate"}
                THEN model
                ELSE [model EXCEPT !.frames = @ \cup {idx}]
    /\ exc_call' = call
    /\ drv_pc' = "next"
    /\ UNCHANGED <<enqueued, dequeued, sent, failed, connects, not_found,
                   processed, compactions, close_run>>
    /\ UNCHANGED <<dataset_count, dir_not_found, is_done, is_started, is_running,
                   idx, poses, T_frame_to_model, exists, posted, window, attrs,
                   data_queue>>
    /\ UNCHANGED meshVars
    /\ UNCHANGED <<done_read, ui_pc>>
    /\ UNCHANGED senderVars

\* Line 547: idx is incremented, after the try block or its except branch.
DriverNextIdx ==
    /\ drv_pc = "next"
    /\ idx' = idx + 1
    /\ drv_pc' = "done"
    /\ UNCHANGED <<dataset_count, dir_not_found, is_done, is_started, is_running,
                   poses, T_frame_to_model, model, exists, posted, window, attrs,
                   data_queue>>
    /\ UNCHANGED meshVars
    /\ UNCHANGED <<done_read, ui_pc>>
    /\ UNCHANGED senderVars
    /\ exc_call' = NoCall
    /\ UNCHANGED <<enqueued, dequeued, sent, failed, connects, not_found,
                   processed, compactions, close_run>>

\* Line 548, the read: is_done is read for the right-hand side.
DriverReadDone ==
    /\ drv_pc = "done"
    /\ done_read' = is_done
    /\ drv_pc' = "write"
    /\ UNCHANGED ui_pc
    /\ UNCHANGED <<dataset_count, dir_not_found, is_done, is_started, is_running,
                   idx, poses, T_frame_to_model, model, exists, posted, window,
                   attrs, data_queue>>
    /\ UNCHANGED meshVars
    /\ UNCHANGED senderVars
    /\ UNCHANGED historyVars

\* Line 548, the write: is_done is assigned from is_done as read and the
\* index as incremented at line 547.  A True that _on_close has assigned
\* since the read is lost.
DriverSetDone ==
    /\ drv_pc = "write"
    /\ is_done' = LoopDone(done_read, idx)
    /\ done_read' = FALSE
    /\ UNCHANGED ui_pc
    /\ drv_pc' = "loop"
    /\ UNCHANGED <<dataset_count, dir_not_found, is_started, is_running, idx,
                   poses, T_frame_to_model, model, exists, posted, window, attrs,
                   data_queue>>
    /\ UNCHANGED meshVars
    /\ UNCHANGED senderVars
    /\ UNCHANGED historyVars

\* Line 453: is_done is set, the frame loop ends.
DriverLoopEnd ==
    /\ drv_pc = "loop"
    /\ is_done
    /\ drv_pc' = "extract"
    /\ UNCHANGED <<dataset_count, dir_not_found, is_done, is_started, is_running,
                   idx, poses, T_frame_to_model, model, exists, posted, window,
                   attrs, data_queue>>
    /\ UNCHANGED meshVars
    /\ UNCHANGED <<done_read, ui_pc>>
    /\ UNCHANGED senderVars
    /\ UNCHANGED historyVars

\* Line 550 without a model: self.model was never assigned, the attribute
\* access raises and the thread ends.
DriverExtractRaises ==
    /\ drv_pc = "extract"
    /\ model = NoModel
    /\ drv_pc' = "crashed"
    /\ UNCHANGED <<dataset_count, dir_not_found, is_done, is_started, is_running,
                   idx, poses, T_frame_to_model, model, exists, posted, window,
                   attrs, data_queue>>
    /\ UNCHANGED meshVars
    /\ UNCHANGED <<done_read, ui_pc>>
    /\ UNCHANGED senderVars
    /\ UNCHANGED historyVars

\* The threads: the main thread of the GUI, the driver thread 'UpdateMain'
\* and the sender thread socket_thread.
MainThread == "MainThread"
UpdateMain == "UpdateMain"
SocketThread == "socket_thread"

\* An item compacted before it is put: the compacted mesh in place of the
\* extracted one.
QueueItemCompacted(number, extracted) ==
    [ds |-> number, mesh |-> CompactMesh(ProcessMeshLocals(extracted))]

\* Line 552: the item put is the extracted mesh itself (number tells the
\* dataset it is of).
QueueItem(number, extracted) == [ds |-> number, mesh |-> extracted]

\* Lines 550-552: the mesh of the model is extracted and put on the queue.
DriverPut ==
    /\ drv_pc = "extract"
    /\ model # NoModel
    /\ ~QueueFull(data_queue)
    /\ data_queue' = QueuePut(data_queue,
                              QueueItem(PathDataset, ExtractTriangleMesh(model)))
    /\ enqueued' = Append(enqueued, PathDataset)
    /\ drv_pc' = "put"
    /\ UNCHANGED <<dataset_count, dir_not_found, is_done, is_started, is_running,
                   idx, poses, T_frame_to_model, model, exists, posted, window,
                   attrs>>
    /\ UNCHANGED <<dequeued, sent, failed, connects, not_found,
                   exc_call, processed, compactions, close_run>>
    /\ UNCHANGED meshVars
    /\ UNCHANGED <<done_read, ui_pc>>
    /\ UNCHANGED senderVars

\* Line 562: put has returned; dataset_count is incremented and the outer
\* loop starts again.
DriverCount ==
    /\ drv_pc = "put"
    /\ dataset_count' = dataset_count + 1
    /\ drv_pc' = "poll"
    /\ UNCHANGED <<dir_not_found, is_done, is_started, is_running, idx, poses,
                   T_frame_to_model, model, exists, posted, window, attrs,
                   data_queue>>
    /\ UNCHANGED meshVars
    /\ UNCHANGED <<done_read, ui_pc>>
    /\ UNCHANGED senderVars
    /\ UNCHANGED historyVars

\* The steps of the driver but the raise of line 550.
DriverRuns ==
    \/ DriverDirMissing
    \/ DriverWake
    \/ DriverNewDataset
    \/ DriverStartDataset
    \/ \E loads \in BOOLEAN : DriverLoad(loads)
    \/ DriverIdle
    \/ DriverFrameTest
    \/ \E tracking_fails \in BOOLEAN : DriverTrack(tracking_fails)
    \/ \E call \in CallsAfterPose \cup {NoCall} : DriverIntegrate(call)
    \/ DriverNextIdx
    \/ DriverReadDone
    \/ DriverSetDone
    \/ DriverLoopEnd
    \/ DriverPut
    \/ DriverCount

Driver ==
    \/ DriverRuns
    \/ DriverExtractRaises

----------------------------------------------------------------------------
(* The main (UI) thread and the file system.  The main thread runs one     *)
(* callback at a time: while a callback runs (ui_pc is not "idle", or      *)
(* window = "closing") no other callback does.  No callback is run once    *)
(* the window is closed.  A main thread that runs no further callback is a *)
(* behaviour of the model, so an event loop that does not survive an       *)
(* exception of a callback needs no state of its own.                      *)

\* _on_start, lines 240-252: the callback posted first is run and creates
\* the model.
UIRunPosted ==
    /\ window = "open"
    /\ ui_pc = "idle"
    /\ posted # <<>>
    /\ model' = [ds |-> Head(posted).ds, frames |-> {}]
    /\ posted' = Tail(posted)
    /\ ui_pc' = "on_start"
    /\ UNCHANGED <<dataset_count, dir_not_found, is_done, is_started, is_running,
                   idx, poses, T_frame_to_model, drv_pc, exists, window, attrs,
                   data_queue>>
    /\ UNCHANGED done_read
    /\ UNCHANGED meshVars
    /\ UNCHANGED senderVars
    /\ UNCHANGED historyVars

\* _on_start, lines 256-259: is_started is set and the callback returns.
UIOnStartReturns ==
    /\ ui_pc = "on_start"
    /\ is_started' = TRUE
    /\ attrs' = attrs \cup {"is_started"}
    /\ ui_pc' = "idle"
    /\ UNCHANGED <<dataset_count, dir_not_found, is_done, is_running, idx, poses,
                   T_frame_to_model, model, drv_pc, exists, posted, window,
                   data_queue>>
    /\ UNCHANGED done_read
    /\ UNCHANGED meshVars
    /\ UNCHANGED senderVars
    /\ UNCHANGED historyVars

\* _on_switch: the toggle is clicked.  Before update_main has assigned
\* is_running the read of line 237 raises AttributeError and nothing is
\* changed.
UIOnSwitch ==
    /\ window = "open"
    /\ ui_pc = "idle"
    /\ IF "is_running" \in attrs
       THEN is_running' = ~is_running
       ELSE UNCHANGED is_running
    /\ UNCHANGED <<dataset_count, dir_not_found, is_done, is_started, idx, poses,
                   T_frame_to_model, model, drv_pc, exists, posted, window,
                   attrs, data_queue>>
    /\ UNCHANGED <<done_read, ui_pc>>
    /\ UNCHANGED meshVars
    /\ UNCHANGED senderVars
    /\ UNCHANGED historyVars

\* _on_close, line 262: is_done is set.
UIOnClose ==
    /\ window = "open"
    /\ ui_pc = "idle"
    /\ is_done' = TRUE
    /\ attrs' = attrs \cup {"is_done"}
    /\ ui_pc' = "on_close"
    /\ close_run' = TRUE
    /\ UNCHANGED <<dataset_count, dir_not_found, is_started, is_running, idx,
                   poses, T_frame_to_model, model, drv_pc, exists, posted,
                   window, data_queue>>
    /\ UNCHANGED done_read
    /\ UNCHANGED meshVars
    /\ UNCHANGED senderVars
    /\ UNCHANGED <<enqueued, dequeued, sent, failed, connects, not_found,
                   exc_call, processed, compactions>>

\* _on_close, line 264: is_started is tested.  Before update_main has
\* assigned it the test raises AttributeError: the callback does not return
\* True and the window is not closed.  Otherwise the callback goes on (with
\* the saves of lines 265-278 when started).
UIOnCloseTest ==
    /\ ui_pc = "on_close"
    /\ window' = IF "is_started" \in attrs THEN "closing" ELSE "open"
    /\ ui_pc' = "idle"
    /\ UNCHANGED <<dataset_count, dir_not_found, is_done, is_started, is_running,
                   idx, poses, T_frame_to_model, model, drv_pc, exists, posted,
                   attrs, data_queue>>
    /\ UNCHANGED done_read
    /\ UNCHANGED meshVars
    /\ UNCHANGED senderVars
    /\ UNCHANGED historyVars

\* _on_close, line 280: the callback returns True and the window is closed.
UIOnCloseReturns ==
    /\ window = "closing"
    /\ window' = "closed"
    /\ UNCHANGED <<dataset_count, dir_not_found, is_done, is_started, is_running,
                   idx, poses, T_frame_to_model, model, drv_pc, exists, posted,
                   attrs, data_queue>>
    /\ UNCHANGED <<done_read, ui_pc>>
    /\ UNCHANGED meshVars
    /\ UNCHANGED senderVars
    /\ UNCHANGED historyVars

\* The directory of the next dataset appears (scene_1, scene_2, ... in order).
CreateDataset ==
    /\ Cardinality(exists) < MaxDatasets
    /\ exists' = exists \cup {Cardinality(exists) + 1}
    /\ UNCHANGED <<dataset_count, dir_not_found, is_done, is_started, is_running,
                   idx, poses, T_frame_to_model, model, drv_pc, posted, window,
                   attrs, data_queue>>
    /\ UNCHANGED meshVars
    /\ UNCHANGED <<done_read, ui_pc>>
    /\ UNCHANGED senderVars
    /\ UNCHANGED historyVars

----------------------------------------------------------------------------
(* The network sender: process_data, the daemon thread socket_thread.      *)
(* snd_pc is "connect" before client_socket.connect, "get" at              *)
(* data_queue.get(), "encode" at process_mesh, "send" inside               *)
(* client_socket.sendall and "dead" after an uncaught exception.  Inside   *)
(* sendall the socket takes the frame piece by piece; what it has taken is *)
(* on the connection, and the peer receives a prefix of it, sooner or      *)
(* later or never.                                                         *)

\* sendall hands the frame to the socket, which takes it in pieces of any
\* size and number.  The lengths at which the socket can stand inside a
\* frame: every number of bytes from the first to the last but one.
Prefixes(frame) == 1..(Len(frame) - 1)

\* The sizes of the piece the socket takes next when it has taken w bytes
\* of the frame and does not take the rest: any number of bytes that leaves
\* it inside the frame.
Pieces(frame, w) == {p - w : p \in {q \in Prefixes(frame) : q > w}}

\* An except branch that puts the item back at the head of the queue.
ExceptHandlerRequeue(q, item) == [data_queue |-> <<item>> \o q, snd_pc |-> "get"]

\* An except branch that connects again before it goes on.
ExceptHandlerReconnect(q, item) == [data_queue |-> q, snd_pc |-> "connect"]

\* A try block around the whole loop: the first exception ends the loop.
ExceptHandlerOutsideLoop(q, item) == [data_queue |-> q, snd_pc |-> "dead"]

\* Lines 660-661: the except branch prints the error; the queue is left as
\* it is and the loop goes on with the next get().
ExceptHandler(q, item) == [data_queue |-> q, snd_pc |-> "get"]

\* Lines 638-642: socket() and connect().  A refused connection raises
\* outside the try block: the thread ends.
SenderConnect(ok) ==
    /\ snd_pc = "connect"
    /\ connects' = connects + 1
    /\ IF ok
       THEN client_socket' = "connected" /\ snd_pc' = "get"
       ELSE client_socket' = "closed" /\ snd_pc' = "dead"
    /\ UNCHANGED <<data, byte_array, index, written, stream, data_queue>>
    /\ UNCHANGED <<enqueued, dequeued, sent, failed, not_found,
                   exc_call, processed, compactions, close_run>>
    /\ UNCHANGED meshVars
    /\ UNCHANGED driverVars

\* Lines 648-649: get() returns the head of the queue; it blocks while the
\* queue is empty.
SenderGet ==
    /\ snd_pc = "get"
    /\ data_queue # <<>>
    /\ data_queue' = QueueGet(data_queue).queue
    /\ data' = QueueGet(data_queue).item
    /\ dequeued' = Append(dequeued, QueueGet(data_queue).item.ds)
    /\ snd_pc' = "encode"
    /\ UNCHANGED <<byte_array, index, client_socket, written, stream>>
    /\ UNCHANGED <<enqueued, sent, failed, connects, not_found,
                   exc_call, processed, compactions, close_run>>
    /\ UNCHANGED meshVars
    /\ UNCHANGED driverVars

\* Lines 650-651: process_mesh encodes the item; if it raises, the except
\* branch is taken.
SenderEncode ==
    /\ snd_pc = "encode"
    /\ LET result == ProcessMeshLocals(data.mesh)
       IN  IF result.exception = NoException
           THEN /\ byte_array' = result.byte_array
                /\ snd_pc' = "send"
                /\ UNCHANGED <<data, data_queue, failed, close_run>>
           ELSE /\ data_queue' = ExceptHandler(data_queue, data).data_queue
                /\ snd_pc' = ExceptHandler(data_queue, data).snd_pc
                /\ failed' = Append(failed, [ds |-> data.ds, written |-> 0])
                /\ data' = NoData
                /\ UNCHANGED byte_array
    /\ compactions' = Append(compactions, [ds |-> data.ds, thread |-> SocketThread])
    /\ UNCHANGED <<index, client_socket, written, stream>>
    /\ UNCHANGED <<enqueued, dequeued, sent, connects, not_found, exc_call, processed, close_run>>
    /\ UNCHANGED meshVars
    /\ UNCHANGED driverVars

\* Line 653, inside sendall: the socket takes k more bytes of the frame, not
\* the last ones, and sendall goes on.
SenderSendSome(k) ==
    /\ snd_pc = "send"
    /\ client_socket = "connected"
    /\ k >= 1
    /\ written + k < Len(byte_array)
    /\ stream' = stream \o SubSeq(byte_array, written + 1, written + k)
    /\ written' = written + k
    /\ UNCHANGED <<snd_pc, data, byte_array, index, client_socket, data_queue>>
    /\ UNCHANGED historyVars
    /\ UNCHANGED meshVars
    /\ UNCHANGED driverVars

\* Lines 653-655: the socket takes the rest of the frame and sendall
\* returns: the whole frame is on the connection.
SenderSendReturns ==
    /\ snd_pc = "send"
    /\ client_socket = "connected"
    /\ stream' = stream \o SubSeq(byte_array, written + 1, Len(byte_array))
    /\ written' = 0
    /\ index' = index + 1
    /\ sent' = Append(sent, [ds |-> data.ds, len |-> Len(byte_array),
                             conn |-> connects])
    /\ data' = NoData
    /\ byte_array' = <<>>
    /\ snd_pc' = "get"
    /\ UNCHANGED <<client_socket, data_queue>>
    /\ UNCHANGED <<enqueued, dequeued, failed, connects, not_found,
                   exc_call, processed, compactions, close_run>>
    /\ UNCHANGED meshVars
    /\ UNCHANGED driverVars

\* Lines 653, 660-661: sendall raises with the bytes taken so far on the
\* connection, a strict prefix of the frame; the connection is lost
\* (breaks) or stays usable.  On a lost connection the socket takes
\* nothing and every sendall raises.
SenderSendRaises(breaks) ==
    /\ snd_pc = "send"
    /\ client_socket = "broken" => breaks
    /\ client_socket' = IF breaks THEN "broken" ELSE client_socket
    /\ failed' = Append(failed, [ds |-> data.ds, written |-> written])
    /\ data_queue' = ExceptHandler(data_queue, data).data_queue
    /\ snd_pc' = ExceptHandler(data_queue, data).snd_pc
    /\ data' = NoData
    /\ byte_array' = <<>>
    /\ written' = 0
    /\ UNCHANGED <<index, stream>>
    /\ UNCHANGED <<enqueued, dequeued, sent, connects, not_found,
                   exc_call, processed, compactions, close_run>>
    /\ UNCHANGED meshVars
    /\ UNCHANGED driverVars

Sender ==
    \/ \E ok \in BOOLEAN : SenderConnect(ok)
    \/ SenderGet
    \/ SenderEncode
    \/ \E k \in Pieces(byte_array, written) : SenderSendSome(k)
    \/ SenderSendReturns
    \/ \E breaks \in BOOLEAN : SenderSendRaises(breaks)

----------------------------------------------------------------------------
(* The pipeline: the driver, the main thread, the file system, the sender. *)

Init ==
    /\ mesh = NoMesh
    /\ locals = NotRun
    /\ recompacted = NotRun
    /\ shape = NoShape
    /\ lengths = NotRun
    /\ PipelineInit

Next ==
    \/ Driver
    \/ UIRunPosted
    \/ UIOnStartReturns
    \/ UIOnSwitch
    \/ UIOnClose
    \/ UIOnCloseTest
    \/ UIOnCloseReturns
    \/ CreateDataset
    \/ Sender

Spec == Init /\ [][Next]_vars

\* The driver, the main thread and the file system, with the sender held up
\* in connect().  The sender writes its own variables and takes items off
\* the queue, the driver and the main thread read neither, and the put of
\* line 552 is possible at every depth of the queue: what the driver and the
\* main thread do under Spec is what they do here.
NextDriver ==
    \/ Driver
    \/ UIRunPosted
    \/ UIOnStartReturns
    \/ UIOnSwitch
    \/ UIOnClose
    \/ UIOnCloseTest
    \/ UIOnCloseReturns
    \/ CreateDataset

SpecDriver == Init /\ [][NextDriver]_vars

\* The driver, the _on_start callbacks, the file system and the sender, with
\* a user who leaves the window alone.  The sender reads the queue and
\* nothing else of the driver or of the window, and a paused or closed
\* driver puts the same meshes, fewer of them or later: what the sender does
\* under Spec is what it does here.  With the window left alone the frame
\* loop ends only after frames, which need the model: line 550 does not
\* raise.
NextDelivery ==
    \/ DriverRuns
    \/ UIRunPosted
    \/ UIOnStartReturns
    \/ CreateDataset
    \/ Sender

SpecDelivery == Init /\ [][NextDelivery]_vars

\* Lines 696-699: socket_thread is started as a thread of its own.  The
\* delivery specification under the proviso of fair scheduling: a get()
\* that can return does return, process_mesh returns or raises, and every
\* sendall returns or raises, so that the sender stays for ever neither in
\* process_mesh nor in sendall (weak fairness of SenderEncode and of the two
\* outcomes of sendall, which are enabled exactly at these two positions).
\* The code does not guarantee these conditions: the socket has no timeout,
\* so a sendall to a peer that stops reading blocks for ever, and the thread
\* is a daemon, which ends with the process.  They are what a statement
\* about the sender "under fair scheduling" assumes.
SpecFair ==
    /\ Init /\ [][NextDelivery]_vars
    /\ WF_vars(SenderGet)
    /\ []<>(snd_pc # "encode")
    /\ []<>(snd_pc # "send")

----------------------------------------------------------------------------
(* The peer: a receiver of the byte stream.                                *)

RECURSIVE Receive(_, _)
\* The messages a receiver cuts out of the bytes received when it reads the
\* 4-byte total_message_length and then total_message_length - counted further
\* bytes, message after message; aligned tells whether they end at the end
\* of a message.
Receive(received, counted) ==
    IF received = <<>> THEN [messages |-> <<>>, aligned |-> TRUE]
    ELSE IF ~Holds(received, 0, 4) THEN [messages |-> <<>>, aligned |-> FALSE]
    ELSE LET further == ReadInt32(received, 0) - counted
         IN  IF ~Holds(received, 4, further)
             THEN [messages |-> <<>>, aligned |-> FALSE]
             ELSE LET rest == Receive(SubSeq(received, 5 + further, Len(received)), counted)
                  IN  [messages |-> <<SubSeq(received, 1, 4 + further)>> \o rest.messages,
                       aligned |-> rest.aligned]

----------------------------------------------------------------------------
(* Claims about the pipeline.                                              *)

\* No sendall has raised after a part of its frame was transmitted.
NoPartialWrite == \A i \in 1..Len(failed) : failed[i].written = 0

\* Whether the receiver that reads total_message_length - counted further
\* bytes after the header cuts the stream, up to the frame in hand, into the
\* frames written, one each.
ReceiverAligned(counted) ==
    LET r == Receive(SubSeq(stream, 1, Len(stream) - written), counted)
    IN  /\ r.aligned
        /\ Len(r.messages) = Len(sent)
        /\ \A i \in 1..Len(sent) :
              /\ Len(r.messages[i]) = sent[i].len
              /\ Decode(r.messages[i]).ok
              /\ Decode(r.messages[i]).end = sent[i].len

\* C4 as stated: total_message_length is the number of bytes that remain in
\* the frame after the header, so that a receiver that reads the header and
\* then total_message_length further bytes consumes one frame each time and
\* stays on frame boundaries.
C4_Original ==
    /\ snd_pc = "send" => ReadInt32(byte_array, 0) = Len(byte_array) - 4
    /\ NoPartialWrite => ReceiverAligned(0)

\* C4 as amended: total_message_length counts the whole frame, its own four
\* bytes included, so that a receiver that reads the 4-byte header and then
\* total_message_length - 4 further bytes consumes one frame each time and
\* stays on frame boundaries when whole frames are written back to back.
C4_ReceiverStaysAligned ==
    /\ snd_pc = "send" => ReadInt32(byte_array, 0) - 4 = Len(byte_array) - 4
    /\ NoPartialWrite => ReceiverAligned(4)

\* C4 witness: two frames of different lengths lie back to back on the
\* connection.
C4_Witness ==
    /\ NoPartialWrite
    /\ Len(sent) = 2
    /\ sent[1].len # sent[2].len
    /\ Len(stream) = sent[1].len + sent[2].len

\* The position of dataset number d in the sequence of numbers s, 0 if absent.
Position(s, d) ==
    IF \E i \in 1..Len(s) : s[i] = d
    THEN CHOOSE i \in 1..Len(s) : s[i] = d
    ELSE 0

\* C5: frames are written in the order their meshes were enqueued: every
\* frame written is of an enqueued mesh, and of two frames written the one
\* enqueued first was written first.
C5_WrittenInEnqueueOrder ==
    /\ \A i \in 1..Len(sent) : Position(enqueued, sent[i].ds) > 0
    /\ \A i, j \in 1..Len(sent) :
          i < j => Position(enqueued, sent[i].ds) < Position(enqueued, sent[j].ds)

\* C5 witness: the frames of two meshes were written.
C5_Witness ==
    /\ Len(sent) >= 2
    /\ sent[1].ds # sent[2].ds

\* C6: the driver never waits on the sender or the socket: until it has left
\* its outer loop, a step of the driver is possible in every state, wherever
\* the sender stands (not connected, dead, blocked in get or inside sendall)
\* and whatever the queue holds.
C6_DriverNeverWaits ==
    drv_pc \notin {"exit", "crashed"} => ENABLED Driver

\* C6 witness: the sender is inside sendall with the first mesh, or has
\* never connected, and the driver has enqueued a later mesh behind it.
C6_Witness ==
    /\ snd_pc \in {"send", "dead", "connect"}
    /\ Len(sent) = 0
    /\ Len(failed) = 0
    /\ Len(enqueued) >= 2
    /\ drv_pc = "extract" \/ drv_pc = "poll"

\* The dataset numbers of the items of the queue, head first.
QueuedNumbers == [i \in 1..Len(data_queue) |-> data_queue[i].ds]

\* C7: the queue never blocks the producer and never drops an item: the
\* meshes put are those popped followed by those in the queue, in the order
\* of the puts; a put is possible at every depth; a get is possible exactly
\* when the queue holds an item.
C7_QueueKeepsEveryItem ==
    /\ enqueued = dequeued \o QueuedNumbers
    /\ (drv_pc = "extract" /\ model # NoModel) => ENABLED DriverPut
    /\ snd_pc = "get" => ((ENABLED SenderGet) <=> (data_queue # <<>>))

\* C7 witness: a mesh waits in the queue, the sender has not connected, and
\* the driver stands before the put of the next mesh.
C7_Witness ==
    /\ Len(data_queue) >= 1
    /\ snd_pc = "connect"
    /\ drv_pc = "extract"
    /\ model # NoModel

\* The dataset numbers of the frames written.
SentNumbers == {sent[i].ds : i \in 1..Len(sent)}

\* C8: when sendall raises, the error is logged and the item dropped: the
\* step that logs the failure leaves the queue as it is, holds no item
\* afterwards, makes no connect and has the sender at get() again; no item
\* is popped twice, no failed item is ever written, and connect is called
\* once at most.
C8_FailedWriteIsDropped ==
    /\ [][Len(failed') > Len(failed) =>
            /\ snd_pc' = "get"
            /\ data' = NoData
            /\ data_queue' = data_queue
            /\ connects' = connects
            /\ sent' = sent]_vars
    /\ [](\A i, j \in 1..Len(dequeued) : i # j => dequeued[i] # dequeued[j])
    /\ [](\A i \in 1..Len(failed) : failed[i].ds \notin SentNumbers)
    /\ [](connects <= 1)

\* C8 witness: a write failed, and the frame of a later mesh was written
\* on the same connection afterwards.
C8_Witness ==
    /\ Len(failed) >= 1
    /\ Len(sent) >= 1
    /\ failed[1].ds < sent[Len(sent)].ds
    /\ connects = 1

\* C15: the sender connects once, before it takes any item: connect is
\* called once at most, an item is popped and a byte written only after the
\* one connect has succeeded, and every frame is written on that connection.
C15_OneConnectionBeforeAnyItem ==
    /\ connects <= 1
    /\ snd_pc = "connect" <=> connects = 0
    /\ (dequeued # <<>> \/ stream # <<>> \/ snd_pc \in {"get", "encode", "send"})
          => (connects = 1 /\ client_socket \in {"connected", "broken"})
    /\ client_socket = "closed" => (dequeued = <<>> /\ stream = <<>> /\ sent = <<>>)
    /\ \A i \in 1..Len(sent) : sent[i].conn = 1

\* C15 witness: two frames were written on the one connection, which is
\* still up, while no write has failed.
C15_Witness ==
    /\ Len(sent) = 2
    /\ sent[1].conn = 1 /\ sent[2].conn = 1
    /\ connects = 1
    /\ client_socket = "connected"
    /\ failed = <<>>

\* C16: one mesh is enqueued for every dataset whose directory the driver
\* has found, in dataset order: once the frame loop of a dataset has ended,
\* the next step of the driver enqueues its mesh; the step after that
\* counts the dataset, and only then is the next dataset looked for; a mesh
\* is enqueued by no other step, and not while the frames of its dataset
\* are processed.
C16_OneMeshPerDatasetInOrder ==
    /\ [][drv_pc' # drv_pc /\ drv_pc = "extract" =>
            /\ drv_pc' = "put"
            /\ enqueued' = Append(enqueued, PathDataset)]_vars
    /\ [](Len(enqueued) = dataset_count + (IF drv_pc = "put" THEN 1 ELSE 0))
    /\ [](\A i \in 1..Len(enqueued) : enqueued[i] = i /\ i \in exists)
    /\ [](drv_pc \in {"start", "load", "loop", "frame", "pose", "next", "done", "write",
                       "extract"}
            => \A i \in 1..Len(enqueued) : enqueued[i] # PathDataset)
    /\ [][enqueued' # enqueued =>
            /\ drv_pc = "extract" /\ drv_pc' = "put"
            /\ is_done
            /\ enqueued' = Append(enqueued, PathDataset)
            /\ dataset_count' = dataset_count]_vars
    /\ [][dataset_count' # dataset_count =>
            /\ drv_pc = "put" /\ drv_pc' = "poll"
            /\ dataset_count' = dataset_count + 1
            /\ enqueued' = enqueued]_vars

\* How many times the directory of dataset d was found missing.
TimesNotFound(d) == Cardinality({i \in 1..Len(not_found) : not_found[i] = d})

\* C17: every dataset gets one retry: the outer loop has ended only when
\* the directory of the dataset polled last was found missing twice.
C17_OneRetryForEveryDataset ==
    drv_pc = "exit" => TimesNotFound(PathDataset) = 2

\* track_frame_to_model has raised: the except branch is taken from line 467.
TrackingRaised == drv_pc = "frame" /\ exc_call' = "track_frame_to_model"

\* C18: when track_frame_to_model raises at frame idx, the step appends no
\* pose, leaves the transform and the model as they are and goes to the end
\* of the try block, from where the driver goes on to frame idx + 1 in the
\* frame loop; the frame is not integrated then or later, and gets no pose:
\* a pose is appended only after a tracking that returned, and a frame
\* integrated only after its pose was appended.
C18_TrackingFailureSkipsFrame ==
    /\ [][TrackingRaised =>
            /\ idx > 0
            /\ poses' = poses
            /\ T_frame_to_model' = T_frame_to_model
            /\ model' = model
            /\ idx' = idx
            /\ drv_pc' = "next"
            /\ dataset_count' = dataset_count]_vars
    /\ [][drv_pc = "next" /\ drv_pc' # drv_pc =>
            /\ drv_pc' = "done"
            /\ idx' = idx + 1
            /\ poses' = poses
            /\ T_frame_to_model' = T_frame_to_model
            /\ model' = model]_vars
    /\ [][drv_pc' # drv_pc /\ drv_pc \in {"done", "write"} =>
            /\ drv_pc' = (IF drv_pc = "done" THEN "write" ELSE "loop")
            /\ idx' = idx
            /\ poses' = poses
            /\ T_frame_to_model' = T_frame_to_model
            /\ model' = model]_vars
    /\ [][poses' # poses =>
            \/ drv_pc = "frame" /\ drv_pc' = "pose"
                                /\ poses' = Append(poses, T_frame_to_model')
            \/ drv_pc = "start" /\ poses' = <<>>]_vars
    /\ [][model # NoModel /\ model' # NoModel /\ model'.ds = model.ds
                          /\ model'.frames # model.frames =>
            /\ drv_pc = "pose" /\ drv_pc' = "next"
            /\ model'.frames = model.frames \cup {idx}]_vars

\* C18 witness: the tracking of frame 1 raised, the driver went on past it,
\* and the mesh of the dataset, of frame 0 alone, was enqueued with the
\* window open.
C18_Witness ==
    /\ model # NoModel
    /\ model.frames = {0}
    /\ Len(poses) = 1
    /\ T_frame_to_model = 0
    /\ idx = 2
    /\ window = "open"
    /\ drv_pc = "put"
    /\ enqueued[Len(enqueued)] = model.ds

\* The threads that have called process_mesh on the mesh of dataset d.
CompactedBy(d) ==
    {compactions[i].thread : i \in {j \in 1..Len(compactions) : compactions[j].ds = d}}

\* Whether every vertex of a mesh is referenced by a triangle.
IsCompact(m) == Cardinality(Referenced(m.triangles)) = Len(m.vertices)

\* C19 as stated: compaction is done by the driver thread and never by the
\* main thread: every item was compacted by the driver before it was put on
\* the queue, and the items of the queue are compacted meshes.
C19_Original ==
    /\ \A i \in 1..Len(compactions) : compactions[i].thread # MainThread
    /\ \A i \in 1..Len(enqueued) : UpdateMain \in CompactedBy(enqueued[i])
    /\ \A i \in 1..Len(data_queue) : IsCompact(data_queue[i].mesh)

\* C19 as amended: compaction is done by the sender thread, after the item
\* was popped and before it is written, and never by the main thread or the
\* driver: the item the driver puts on the queue is the mesh as extracted,
\* and the put compacts nothing.
C19_CompactedBySender ==
    /\ [](\A i \in 1..Len(compactions) :
            /\ compactions[i].thread = SocketThread
            /\ i <= Len(dequeued)
            /\ compactions[i].ds = dequeued[i])
    /\ [](\A i \in 1..Len(sent) : CompactedBy(sent[i].ds) = {SocketThread})
    /\ [][enqueued' # enqueued =>
            /\ data_queue'[Len(data_queue')].mesh = ExtractTriangleMesh(model)
            /\ compactions' = compactions]_vars
    /\ [][compactions' # compactions =>
            /\ snd_pc = "encode"
            /\ data_queue' = data_queue
            /\ enqueued' = enqueued
            /\ drv_pc' = drv_pc]_vars

\* C19 witness: the sender has compacted a popped mesh that was enqueued
\* with a vertex no triangle references, and is about to write its frame.
C19_Witness ==
    /\ snd_pc = "send"
    /\ ~IsCompact(data.mesh)
    /\ Len(compactions) >= 1
    /\ compactions[Len(compactions)] = [ds |-> data.ds, thread |-> SocketThread]
    /\ Decode(byte_array).ok
    /\ Decode(byte_array).Lv < 12 * Len(data.mesh.vertices)

\* C21: the bytes on the connection are whole frames one after the other:
\* once a write has failed with a part of its frame transmitted, no byte of
\* a later frame is put on the connection.
C21_WholeFramesOnly ==
    [][(\E i \in 1..Len(failed) : failed[i].written > 0) => stream' = stream]_vars

\* C23: a frame is tracked or integrated, and a mesh is extracted, only
\* against the model that the _on_start posted for the dataset in hand has
\* created.
C23_ModelOfTheDataset ==
    [][((drv_pc \in {"frame", "pose"} /\ drv_pc' # drv_pc)
           \/ enqueued' # enqueued) =>
          (model # NoModel /\ model.ds = PathDataset)]_vars

\* C24: once the window is closed the driver processes no further frame, the
\* done state is not left again, and no other dataset is started.
C24_ClosedStaysDone ==
    [][window = "closed" =>
          /\ is_done'
          /\ idx' # idx + 1
          /\ ~(drv_pc = "poll" /\ drv_pc' = "start")]_vars

\* The number of items the sender has done with: written in full, or dropped
\* by the except branch.
Settled == Len(sent) + Len(failed)

\* The sender is inside its loop: at get(), in process_mesh or in sendall.
InLoop == snd_pc \in {"get", "encode", "send"}

\* C22: once connected, the sender never leaves its loop (every exception of
\* get, process_mesh and sendall is caught inside it); it pops the meshes in
\* the order they were put and does with each one exactly once; and under
\* fair scheduling every mesh put on the queue is eventually popped and then
\* either written in full or dropped: again and again every mesh enqueued
\* so far has been done with.
C22_SenderSettlesEveryMesh ==
    /\ [][InLoop => InLoop']_vars
    /\ [](/\ Settled <= Len(dequeued)
          /\ Len(dequeued) <= Len(enqueued)
          /\ dequeued = SubSeq(enqueued, 1, Len(dequeued))
          /\ Len(dequeued) - Settled = (IF data = NoData THEN 0 ELSE 1))
    /\ []<>(client_socket = "closed" \/ Settled >= Len(enqueued))

\* C22 witness: every dataset has given a mesh, the sender has popped them
\* all, has dropped one after an exception and has written a later one.
C22_Witness ==
    /\ Len(enqueued) = MaxDatasets
    /\ Settled = MaxDatasets
    /\ failed # <<>>
    /\ sent # <<>>
    /\ snd_pc = "get"
    /\ data_queue = <<>>

\* The frame loop is left: the driver goes on to extract the mesh.
LoopEnds == drv_pc = "loop" /\ drv_pc' = "extract"

\* The tests of lines 453-454 have passed: the frame at idx is read.
FrameRead == drv_pc = "loop" /\ drv_pc' = "frame"

\* Line 547: a frame has gone through the try block or its except branch.
FrameStep == drv_pc = "next" /\ drv_pc' = "done"

\* What C25 says of the indices: a frame is read at 0 <= idx < n_files, at
\* an index not processed before; idx changes only at the end of a frame,
\* whether its try block raised or not, by one, the frame being among the
\* processed ones by then (between datasets idx is set back to 0); idx
\* counts the processed frames.
IndexDiscipline ==
    /\ [][FrameRead =>
            /\ 0 <= idx /\ idx < NumFiles
            /\ idx \notin processed
            /\ processed' = processed \cup {idx}]_vars
    /\ [][idx' # idx =>
            \/ /\ FrameStep
               /\ idx' = idx + 1
               /\ processed = 0..idx
            \/ drv_pc = "start" /\ idx' = 0]_vars
    /\ [][drv_pc' # drv_pc /\ drv_pc \in {"frame", "pose", "next"} =>
            \/ drv_pc' \in {"pose", "next"} /\ idx' = idx
            \/ FrameStep /\ idx' = idx + 1]_vars
    /\ [](drv_pc \in {"loop", "done", "write", "extract", "put"}
            => processed = 0..(idx - 1))

\* C25 as stated: idx is read within 0 <= idx < n_files, goes up by one per
\* processed frame whether it succeeded or raised, no index is processed
\* twice, and with the driver started and running the frame loop ends after
\* exactly n_files processed frames.
C25_Original ==
    /\ IndexDiscipline
    /\ [][LoopEnds /\ is_started /\ is_running =>
            idx = NumFiles /\ processed = 0..(NumFiles - 1)]_vars

\* C25 as amended: the same, the frame loop ending after exactly n_files
\* processed frames when _on_close has not run.
C25_ExactlyNFilesUnlessClosed ==
    /\ IndexDiscipline
    /\ [][LoopEnds /\ ~close_run =>
            idx = NumFiles /\ processed = 0..(NumFiles - 1)]_vars

\* C25 witness: the frame loop of the second dataset has ended with the
\* window open, after n_files frames of which one raised in tracking.
C25_Witness ==
    /\ drv_pc = "extract"
    /\ window = "open"
    /\ ~close_run
    /\ dataset_count = 1
    /\ idx = NumFiles
    /\ Len(poses) < idx
    /\ processed = 0..(NumFiles - 1)

\* The frame index, the pose list and the accumulated transform are left as
\* they are, and no mesh is enqueued.
NothingChanges ==
    /\ idx' = idx
    /\ poses' = poses
    /\ T_frame_to_model' = T_frame_to_model
    /\ enqueued' = enqueued

\* The driver is paused, or not yet started.
Paused == ~is_running \/ ~is_started

\* C26 as stated: while the driver is paused or not yet started and the
\* window is not closed, a driver step changes nothing, and processing
\* resumes at the same frame index.
C26_Original ==
    [][Paused /\ window = "open" /\ Driver =>
          NothingChanges /\ model' = model]_vars

\* C26 as amended: while the driver is at the test of the frame loop with
\* is_done false, and paused or not yet started, a driver step changes
\* nothing and leaves the driver at the test; while the driver is at the
\* test no step of any thread changes the frame index, the poses, the
\* transform or the meshes enqueued: processing resumes at the same frame
\* index.  In the frame loop idx is changed only at the end of a frame
\* whose test has passed.
C26_WaitingChangesNothing ==
    /\ [][drv_pc = "loop" /\ ~is_done /\ Paused /\ Driver =>
            NothingChanges /\ model' = model /\ drv_pc' = drv_pc]_vars
    /\ [][drv_pc = "loop" => NothingChanges]_vars
    /\ [][~NothingChanges /\ drv_pc \in {"loop", "frame", "pose", "next", "done", "write"} =>
            \/ drv_pc = "frame" /\ drv_pc' \in {"pose", "next"} /\ idx' = idx
            \/ drv_pc = "next" /\ drv_pc' = "done" /\ idx' = idx + 1]_vars

\* C26 witness: the driver is paused in the middle of a dataset, with the
\* window open, frames processed and frames left.
C26_Witness ==
    /\ drv_pc = "loop"
    /\ window = "open"
    /\ is_started /\ ~is_running
    /\ ~is_done
    /\ 0 < idx /\ idx < NumFiles
    /\ Len(poses) > 0

====
